---- MODULE Spec2Model ----
(***************************************************************************)
(* QRToolkits: the incremental update orchestrator of pitdata              *)
(* (pitdata/updater/operator.py) and the merge of two in-memory units of   *)
(* the JSON storage engine (database/jsonEngine/dbcore.py).                *)
(*                                                                         *)
(* Times are trading days, numbered 0, 1, 2, ...; the watermark file keeps *)
(* them as formatted day strings.                                          *)
(***************************************************************************)
EXTENDS Integers, Sequences, FiniteSets, TLC

\* ------------------------------------------------------------------------
\* Bounds
\* ------------------------------------------------------------------------
MaxTime == 2          \* end times of a run are the days 1..MaxTime
MaxRuns == 2          \* number of update_all runs in one behaviour
MaxDay == 3           \* the time index of a unit holds the days 1..MaxDay
MaxLen == 2           \* a unit has 1..MaxLen rows
NSym == 2             \* the symbols (columns) of panel data are 1..NSym

\* The names of the registered datasets (load_all).
Names == {"A", "B", "C"}

VARIABLES
    \* ---- registry and ordering (fixed during a behaviour) ----
    dependency,      \* dd.dependency : name -> tuple of names
    in_test,         \* dd.in_test    : name -> BOOLEAN
    update_order,    \* the order produced by generate_dependency_order
    \* ---- durable state ----
    metafile,        \* the watermark file: name -> formatted day (partial)
    inserted,        \* <<name, t>> : insert_data of the data up to t returned True
    \* ---- one run of update_all ----
    pc,              \* "idle", "loop", "insert", "setmeta", "dump"
    end_time,        \* get_endtime() of the current run
    ut_meta,         \* the watermark map in memory: name -> day (partial)
    file0,           \* the watermark file as load_metadata of this run found it
    idx,             \* position of the for loop in update_order
    start_time,      \* start_time of the dataset being updated
    update_result,   \* the run's overall result so far
    outcome,         \* per dataset, what this run did with it
    visited,         \* the datasets this run has visited, in order
    ret,             \* how the last run ended: "none", "true", "false", "raised", "killed"
    runs,            \* number of runs started
    \* ---- DataWrapper.update: self.update(other) ----
    self_data,       \* self: [cat, columns, rows]
    other_data,      \* other: [cat, columns, rows]
    self0,           \* self as it was before the call
    other0,          \* other as it was before the call
    signal,          \* "none", "ok", "warning", "ValueError", "DuplicateIndex"
    mpc,             \* "ready" before the call, "done" after it
    \* ---- split_data, init_from_files, rejoining of shards ----
    sfreq,           \* DB_CONFIG['data_spilt_frequency']
    su,              \* the unit that is split
    shards,          \* split_data(su): the sub-units, by ascending file name
    loaded,          \* init_from_files on the shards: [unit, signal]
    rejoined,        \* the shards merged back with update: [unit, signal]
    spc,             \* "ready", "split", "loaded", "rejoined"
    \* ---- the catalog (DataNode) ----
    nodes,           \* node id -> [name, store_fmt, children, parent]
    root,            \* the node init_from_meta returned
    tree0,           \* the serialized tree init_from_meta was given
    cresult,         \* how init_from_meta ended: "ok" or the error it raised
    csteps,          \* number of add_child / delete_child calls made
    \* ---- the facade (Database) and StoreFormat.validate ----
    f_op,            \* "none", "validate", "query", "insert", "remove_data", "move_to"
    f_fmt,           \* the classification of the call
    f_start,         \* start_time is given
    f_end,           \* end_time is given
    f_result,        \* "none", "True", "False", "ok", "ValueError", "KeyError"
    f_engine,        \* the engine whose operation the call invoked, "none" if none
    \* ---- date2filename, date2filenamelist ----
    p_freq,          \* DB_CONFIG['data_spilt_frequency']
    p_start,         \* start_time
    p_end,           \* end_time
    p_out,           \* the list date2filenamelist returned
    ppc              \* "ready", "done"

regvars == <<dependency, in_test, update_order>>
runvars == <<pc, end_time, ut_meta, file0, idx, start_time, update_result, outcome, visited, ret, runs>>
uvars   == <<dependency, in_test, update_order, metafile, inserted,
             pc, end_time, ut_meta, file0, idx, start_time, update_result, outcome, visited,
             ret, runs>>
mvars   == <<self_data, other_data, self0, other0, signal, mpc>>
svars   == <<sfreq, su, shards, loaded, rejoined, spc>>
cvars   == <<nodes, root, tree0, cresult, csteps>>
fvars   == <<f_op, f_fmt, f_start, f_end, f_result, f_engine>>
pvars   == <<p_freq, p_start, p_end, p_out, ppc>>
vars    == <<uvars, mvars, svars, cvars, fvars, pvars>>

\* What the orchestrator leaves alone, and what the merge leaves alone.
notUpdater == <<mvars, svars, cvars, fvars, pvars>>
notMerge == <<uvars, svars, cvars, fvars, pvars>>
notShard == <<uvars, mvars, cvars, fvars, pvars>>
notCatalog == <<uvars, mvars, svars, fvars, pvars>>
notFacade == <<uvars, mvars, svars, cvars, pvars>>
notPeriod == <<uvars, mvars, svars, cvars, fvars>>

\* ------------------------------------------------------------------------
\* Helpers
\* ------------------------------------------------------------------------
Range(s) == {s[i] : i \in 1..Len(s)}

\* Tuples over S without repetition.
RECURSIVE Tuples(_)
Tuples(S) == {<<>>} \cup UNION {{<<x>> \o t : t \in Tuples(S \ {x})} : x \in S}

\* CONFIG['data_start_date'], the default origin of a recompute.
default_start_time == 0

\* strftime('%Y-%m-%d') of a day and trans_date of such a string.
strftime(t) == <<"ymd", t>>
trans_date(s) == s[2]

load_metadata_ignore(file) == << >>

\* load_metadata: {} when the file does not exist, else the parsed file.
load_metadata(file) == [d \in DOMAIN file |-> trans_date(file[d])]

\* dump_metadata: the whole map, formatted, replaces the file.
dump_metadata(metadata) == [d \in DOMAIN metadata |-> strftime(metadata[d])]

\* dict.get(key, default)
Get(m, k, default) == IF k \in DOMAIN m THEN m[k] ELSE default

\* m[k] = v on a dict
Put(m, k, v) == [x \in DOMAIN m \cup {k} |-> IF x = k THEN v ELSE m[x]]

\* is_dependency_updated: walks dd.dependency in order; ut_meta[dep] raises
\* KeyError when dep has no entry.
RECURSIVE DepLoop(_, _, _)
DepLoop(deps, meta, t) ==
    IF deps = <<>> THEN "true"
    ELSE IF Head(deps) \notin DOMAIN meta THEN "KeyError"
    ELSE IF meta[Head(deps)] # t THEN "false"
    ELSE DepLoop(Tail(deps), meta, t)

is_dependency_updated(d, meta, t) == DepLoop(dependency[d], meta, t)

is_test_data(d) == in_test[d]

\* A valid topological order of the registry: every dataset once, every
\* dependency before its dependents.
IsDependencyOrder(ord, dep) ==
    /\ Len(ord) = Cardinality(Names)
    /\ Range(ord) = Names
    /\ \A i \in 1..Len(ord) : \A x \in Range(dep[ord[i]]) :
           \E j \in 1..(i-1) : ord[j] = x

generate_dependency_order(dep) ==
    {ord \in Tuples(Names) : IsDependencyOrder(ord, dep)}

\* ------------------------------------------------------------------------
\* Initial state: a registry, its order, no watermark file, nothing stored
\* ------------------------------------------------------------------------
IdleUpdater ==
    /\ dependency = [d \in Names |-> << >>]
    /\ in_test = [d \in Names |-> FALSE]
    /\ update_order = << >>
    /\ metafile = << >>
    /\ inserted = {}
    /\ pc = "off"
    /\ end_time = 0
    /\ ut_meta = << >>
    /\ file0 = << >>
    /\ idx = 1
    /\ start_time = 0
    /\ update_result = TRUE
    /\ outcome = [d \in Names |-> "none"]
    /\ visited = << >>
    /\ ret = "none"
    /\ runs = 0

IdleMerge ==
    /\ self_data = << >>
    /\ other_data = << >>
    /\ self0 = << >>
    /\ other0 = << >>
    /\ signal = "none"
    /\ mpc = "off"

IdleShard ==
    /\ sfreq = "none"
    /\ su = << >>
    /\ shards = << >>
    /\ loaded = << >>
    /\ rejoined = << >>
    /\ spc = "off"

IdleCatalog ==
    /\ nodes = << >>
    /\ root = 0
    /\ tree0 = << >>
    /\ cresult = "none"
    /\ csteps = 0

IdleFacade ==
    /\ f_op = "off"
    /\ f_fmt = << >>
    /\ f_start = FALSE
    /\ f_end = FALSE
    /\ f_result = "none"
    /\ f_engine = "none"

IdlePeriod ==
    /\ p_freq = "none"
    /\ p_start = << >>
    /\ p_end = << >>
    /\ p_out = << >>
    /\ ppc = "off"

InitUpdater ==
    /\ IdleMerge
    /\ IdleShard /\ IdleCatalog /\ IdleFacade /\ IdlePeriod
    /\ dependency \in [Names -> Tuples(Names)]
    /\ \A d \in Names : d \notin Range(dependency[d])
    /\ in_test \in [Names -> BOOLEAN]
    /\ update_order \in generate_dependency_order(dependency)
    /\ metafile = << >>
    /\ inserted = {}
    /\ pc = "idle"
    /\ end_time = 0
    /\ ut_meta = << >>
    /\ file0 = << >>
    /\ idx = 1
    /\ start_time = 0
    /\ update_result = TRUE
    /\ outcome = [d \in Names |-> "none"]
    /\ visited = << >>
    /\ ret = "none"
    /\ runs = 0

\* ------------------------------------------------------------------------
\* update_all
\* ------------------------------------------------------------------------
Cur == update_order[idx]
InLoop == pc = "loop" /\ idx <= Len(update_order)

Visit(d, what) ==
    /\ outcome' = [outcome EXCEPT ![d] = what]
    /\ visited' = Append(visited, d)

\* lines 176-181: load the registry, the watermark file, the end time.
StartRun ==
    /\ pc = "idle"
    /\ runs < MaxRuns
    /\ \E t \in 1..MaxTime : end_time' = t
    /\ ut_meta' = load_metadata(metafile)
    /\ file0' = metafile
    /\ idx' = 1
    /\ start_time' = 0
    /\ update_result' = TRUE
    /\ outcome' = [d \in Names |-> "none"]
    /\ visited' = << >>
    /\ ret' = "none"
    /\ runs' = runs + 1
    /\ pc' = "loop"
    /\ UNCHANGED <<notUpdater, regvars, metafile, inserted>>

\* lines 192-195
SkipTest ==
    /\ InLoop
    /\ is_test_data(Cur)
    /\ Visit(Cur, "test")
    /\ idx' = idx + 1
    /\ UNCHANGED <<notUpdater, file0, regvars, metafile, inserted, pc, end_time, ut_meta, start_time,
                   update_result, ret, runs>>

\* line 129: ut_meta[dep] raises KeyError, which leaves update_all.
DependencyKeyError ==
    /\ InLoop
    /\ ~is_test_data(Cur)
    /\ is_dependency_updated(Cur, ut_meta, end_time) = "KeyError"
    /\ Visit(Cur, "depraise")
    /\ pc' = "idle"
    /\ ret' = "raised"
    /\ UNCHANGED <<notUpdater, file0, regvars, metafile, inserted, end_time, ut_meta, idx, start_time,
                   update_result, runs>>

\* lines 196-199
SkipDependency ==
    /\ InLoop
    /\ ~is_test_data(Cur)
    /\ is_dependency_updated(Cur, ut_meta, end_time) = "false"
    /\ Visit(Cur, "dep")
    /\ idx' = idx + 1
    /\ UNCHANGED <<notUpdater, file0, regvars, metafile, inserted, pc, end_time, ut_meta, start_time,
                   update_result, ret, runs>>

IsUpToDate_strict(start, end) == start > end

IsUpToDate_never(start, end) == FALSE

\* line 201: start_time >= end_time
IsUpToDate(start, end) == start >= end

\* The dataset passes the first two checks.
Ready ==
    /\ InLoop
    /\ ~is_test_data(Cur)
    /\ is_dependency_updated(Cur, ut_meta, end_time) = "true"

\* lines 200-204
SkipUpToDate ==
    /\ Ready
    /\ IsUpToDate(Get(ut_meta, Cur, default_start_time), end_time)
    /\ Visit(Cur, "uptodate")
    /\ idx' = idx + 1
    /\ UNCHANGED <<notUpdater, file0, regvars, metafile, inserted, pc, end_time, ut_meta, start_time,
                   update_result, ret, runs>>

\* lines 205, 94-97: calc_method(start_time, end_time) returns the data.
Recompute ==
    /\ Ready
    /\ ~IsUpToDate(Get(ut_meta, Cur, default_start_time), end_time)
    /\ start_time' = Get(ut_meta, Cur, default_start_time)
    /\ Visit(Cur, "calc")
    /\ pc' = "insert"
    /\ UNCHANGED <<notUpdater, file0, regvars, metafile, inserted, end_time, ut_meta, idx,
                   update_result, ret, runs>>

\* lines 98-101, 210-211: calc_method raises; update_single_data returns False.
RecomputeFail ==
    /\ Ready
    /\ ~IsUpToDate(Get(ut_meta, Cur, default_start_time), end_time)
    /\ start_time' = Get(ut_meta, Cur, default_start_time)
    /\ Visit(Cur, "calcfail")
    /\ update_result' = FALSE
    /\ idx' = idx + 1
    /\ UNCHANGED <<notUpdater, file0, regvars, metafile, inserted, pc, end_time, ut_meta, ret, runs>>

SetWatermark_always(meta, d, result, t) == Put(meta, d, t)

\* lines 103-104: the in-memory watermark is set when insert_data succeeded.
SetWatermark(meta, d, result, t) == IF result THEN Put(meta, d, t) ELSE meta

\* line 102: insert_data returns True.
InsertOk ==
    /\ pc = "insert"
    /\ inserted' = inserted \cup {<<Cur, end_time>>}
    /\ outcome' = [outcome EXCEPT ![Cur] = "ok"]
    /\ pc' = "setmeta"
    /\ UNCHANGED <<notUpdater, file0, regvars, metafile, end_time, ut_meta, idx, start_time,
                   update_result, visited, ret, runs>>

\* lines 102-105, 210-211: insert_data returns False.
InsertFalse ==
    /\ pc = "insert"
    /\ outcome' = [outcome EXCEPT ![Cur] = "insfail"]
    /\ ut_meta' = SetWatermark(ut_meta, Cur, FALSE, end_time)
    /\ update_result' = FALSE
    /\ idx' = idx + 1
    /\ pc' = "loop"
    /\ UNCHANGED <<notUpdater, file0, regvars, metafile, inserted, end_time, start_time,
                   visited, ret, runs>>

\* line 102: insert_data raises; nothing catches it, it leaves update_all.
InsertRaise ==
    /\ pc = "insert"
    /\ outcome' = [outcome EXCEPT ![Cur] = "insraise"]
    /\ pc' = "idle"
    /\ ret' = "raised"
    /\ UNCHANGED <<notUpdater, file0, regvars, metafile, inserted, end_time, ut_meta, idx, start_time,
                   update_result, visited, runs>>

\* lines 103-104: result is True here.
SetMeta ==
    /\ pc = "setmeta"
    /\ ut_meta' = SetWatermark(ut_meta, Cur, TRUE, end_time)
    /\ pc' = "dump"
    /\ UNCHANGED <<notUpdater, file0, regvars, metafile, inserted, end_time, idx, start_time,
                   update_result, outcome, visited, ret, runs>>

\* lines 208-209
Dump ==
    /\ pc = "dump"
    /\ metafile' = dump_metadata(ut_meta)
    /\ idx' = idx + 1
    /\ pc' = "loop"
    /\ UNCHANGED <<notUpdater, file0, regvars, inserted, end_time, ut_meta, start_time,
                   update_result, outcome, visited, ret, runs>>

\* line 215
Return ==
    /\ pc = "loop"
    /\ idx > Len(update_order)
    /\ pc' = "idle"
    /\ ret' = IF update_result THEN "true" ELSE "false"
    /\ UNCHANGED <<notUpdater, file0, regvars, metafile, inserted, end_time, ut_meta, idx, start_time,
                   update_result, outcome, visited, runs>>

\* The process is terminated between two steps of the run.
Interrupt ==
    /\ pc \in {"loop", "insert", "setmeta", "dump"}
    /\ pc' = "idle"
    /\ ret' = "killed"
    /\ UNCHANGED <<notUpdater, file0, regvars, metafile, inserted, end_time, ut_meta, idx, start_time,
                   update_result, outcome, visited, runs>>

NextUpdater ==
    \/ StartRun
    \/ SkipTest
    \/ DependencyKeyError
    \/ SkipDependency
    \/ SkipUpToDate
    \/ Recompute
    \/ RecomputeFail
    \/ InsertOk
    \/ InsertFalse
    \/ InsertRaise
    \/ SetMeta
    \/ Dump
    \/ Return
    \/ Interrupt

SpecUpdater == InitUpdater /\ [][NextUpdater]_vars

\* ------------------------------------------------------------------------
\* Properties of update_all
\* ------------------------------------------------------------------------
NoDay == default_start_time - 1     \* a day no watermark can hold: "no entry"
NoEntry == <<"none", NoDay>>

\* The persisted and the in-memory watermark of a dataset.
FileMark(file, d) == Get(file, d, NoEntry)
MemMark(meta, d) == Get(meta, d, NoDay)
Loaded(file, d) == IF d \in DOMAIN file THEN trans_date(file[d]) ELSE NoDay

\* What a run did with a dataset.
RecomputeInvoked == {"calc", "calcfail", "insfail", "insraise", "ok"}
InsertInvoked == {"insfail", "insraise", "ok"}
Failed == {"calcfail", "insfail", "insraise"}

\* The run has ended by itself (returned or raised), not by termination.
Ended == ret \in {"true", "false", "raised"}

Pos(seq, x) == CHOOSE i \in 1..Len(seq) : seq[i] = x
After(d) == {e \in Names : Pos(update_order, e) > Pos(update_order, d)}

\* The dataset whose insert has returned True and whose watermark is not yet
\* in the file.
InFlight(d) == idx <= Len(update_order) /\ update_order[idx] = d /\ outcome[d] = "ok"

\* C1: a watermark, in memory or in the file, is the end time of a run in
\* which the insert of that dataset returned success before the watermark
\* was set: every watermark has its insert behind it, and a watermark that
\* differs from what the run loaded belongs to a dataset whose insert
\* succeeded in this run and equals the run's end time.
C1_InsertBeforeWatermark ==
    \A d \in Names :
        /\ d \in DOMAIN metafile => <<d, trans_date(metafile[d])>> \in inserted
        /\ d \in DOMAIN ut_meta => <<d, ut_meta[d]>> \in inserted
        /\ FileMark(metafile, d) # FileMark(file0, d)
              => outcome[d] = "ok" /\ metafile[d] = strftime(end_time)
        /\ MemMark(ut_meta, d) # Loaded(file0, d)
              => outcome[d] = "ok" /\ ut_meta[d] = end_time

C1_Witness ==
    \E d \in Names :
        /\ outcome[d] = "ok"
        /\ FileMark(metafile, d) = strftime(end_time)
        /\ FileMark(file0, d) # strftime(end_time)
        /\ <<d, end_time>> \in inserted

\* C2 (as claimed): after an interruption the watermark file holds the end
\* time for exactly the datasets whose insert for that end time completed.
C2_Claim ==
    ret = "killed" =>
        \A d \in Names :
            FileMark(metafile, d) = strftime(end_time) <=> <<d, end_time>> \in inserted

\* C2 (amended): at every point of a run, hence wherever it is interrupted,
\* a persisted watermark equal to the end time has its insert behind it, and
\* every dataset whose insert succeeded in the run has the end time in the
\* file, except the one dataset in flight; a run never recomputes a dataset
\* whose persisted watermark already was its end time, and what it recomputes
\* starts from the persisted watermark or the default origin.
C2_InterruptedWatermark ==
    /\ \A d \in Names :
        /\ FileMark(metafile, d) = strftime(end_time) => <<d, end_time>> \in inserted
        /\ (outcome[d] = "ok" /\ ~InFlight(d)) => FileMark(metafile, d) = strftime(end_time)
        /\ FileMark(file0, d) = strftime(end_time) => outcome[d] \notin RecomputeInvoked
    /\ pc = "insert" =>
          start_time = (IF Cur \in DOMAIN metafile THEN trans_date(metafile[Cur])
                        ELSE default_start_time)

C2_Witness ==
    /\ ret = "killed"
    /\ runs >= 2
    /\ \E d, e, f \in Names :
        /\ FileMark(file0, d) = strftime(end_time)
        /\ outcome[d] = "uptodate"
        /\ outcome[e] = "ok" /\ ~InFlight(e) /\ FileMark(file0, e) # strftime(end_time)
        /\ InFlight(f) /\ FileMark(metafile, f) # strftime(end_time)

\* C3 (as claimed): with an empty watermark map and B depending on A, A is
\* visited before B, and when A's insert fails B is skipped as "dependency
\* not updated", the run reaches its end and returns false.
C3_Claim ==
    \A a, b \in Names :
        (/\ runs >= 1
         /\ DOMAIN file0 = {}
         /\ a \in Range(dependency[b])
         /\ ~in_test[b]
         /\ outcome[a] \in {"insfail", "insraise"}
         /\ b \in Range(visited))
        => /\ Pos(visited, a) < Pos(visited, b)
           /\ outcome[b] = "dep"
           /\ Ended => ret = "false"

\* C4 (as claimed): recompute is invoked only when every dependency has the
\* end time as its watermark, and a visited dataset (not in test) with a
\* dependency whose watermark is not the end time, or is missing, is skipped
\* as "dependency not updated", without an error.
C4_Claim ==
    \A d \in Names :
        /\ outcome[d] \in RecomputeInvoked
              => \A x \in Range(dependency[d]) : MemMark(ut_meta, x) = end_time
        /\ (/\ d \in Range(visited)
            /\ ~in_test[d]
            /\ \E x \in Range(dependency[d]) : MemMark(ut_meta, x) # end_time)
              => outcome[d] = "dep"

\* C5 (as claimed): after a failed recompute the dataset's watermark is
\* unchanged in memory and in the file, insert was not called, the overall
\* result is false and every later dataset is visited in the same run.
C5_Claim ==
    \A d \in Names :
        outcome[d] = "calcfail"
        => /\ MemMark(ut_meta, d) = Loaded(file0, d)
           /\ FileMark(metafile, d) = FileMark(file0, d)
           /\ ~update_result
           /\ Ended => (ret = "false" /\ After(d) \subseteq Range(visited))

\* C6 (as claimed): a failed insert, reported as False or raised, leaves the
\* dataset's watermark unchanged in memory and in the file, makes the overall
\* result false, and the remaining datasets are visited.
C6_Claim ==
    \A d \in Names :
        outcome[d] \in {"insfail", "insraise"}
        => /\ MemMark(ut_meta, d) = Loaded(file0, d)
           /\ FileMark(metafile, d) = FileMark(file0, d)
           /\ Ended => (ret = "false" /\ After(d) \subseteq Range(visited))

\* C7 (as claimed): a run that ends has visited every dataset once, in the
\* dependency order, and returns false exactly when a recompute or an insert
\* failed.
C7_Claim ==
    Ended =>
        /\ visited = update_order
        /\ ret \in {"true", "false"}
        /\ ret = "false" <=> (\E d \in Names : outcome[d] \in Failed)

\* C8: a run that finds every dataset's persisted watermark equal to its end
\* time invokes no recompute and no insert, leaves the watermark map and the
\* watermark file as they were, and returns true.
C8_Case == runs >= 1 /\ \A d \in Names : FileMark(file0, d) = strftime(end_time)

C8_Idempotent ==
    C8_Case =>
        /\ \A d \in Names : outcome[d] \in {"none", "uptodate"}
        /\ ut_meta = load_metadata(file0)
        /\ metafile = file0
        /\ ret \in {"none", "true", "killed"}
        /\ pc \in {"loop", "idle"}

C8_Witness ==
    /\ C8_Case
    /\ runs >= 2
    /\ ret = "true"
    /\ visited = update_order
    /\ \A d \in Names : outcome[d] = "uptodate"

\* One step of a sequence of runs, for one dataset: the watermark in the
\* file and, within a run, the watermark in memory do not decrease and change
\* only to the end time of the run, after the dataset's insert of that run
\* succeeded; the dataset at the head of the loop whose watermark is the end
\* time or later is not recomputed and its watermarks stay.
C22_Step(d) ==
    /\ Loaded(metafile', d) >= Loaded(metafile, d)
    /\ Loaded(metafile', d) # Loaded(metafile, d) =>
          /\ Loaded(metafile', d) = end_time
          /\ outcome[d] = "ok"
          /\ <<d, end_time>> \in inserted
    /\ pc # "idle" =>
          /\ MemMark(ut_meta', d) >= MemMark(ut_meta, d)
          /\ MemMark(ut_meta', d) # MemMark(ut_meta, d) =>
                /\ MemMark(ut_meta', d) = end_time
                /\ outcome[d] = "ok"
                /\ <<d, end_time>> \in inserted
    /\ (/\ pc = "loop" /\ idx <= Len(update_order) /\ update_order[idx] = d
        /\ MemMark(ut_meta, d) >= end_time) =>
          /\ outcome'[d] \notin RecomputeInvoked
          /\ pc' # "insert"
          /\ MemMark(ut_meta', d) = MemMark(ut_meta, d)
          /\ Loaded(metafile', d) = Loaded(metafile, d)

\* C22: across any sequence of update_all runs the watermark of a dataset
\* never decreases and changes only by being set to the end time of a run in
\* which that dataset's insert succeeded; a dataset whose watermark is
\* already the run's end time or later is never recomputed and keeps its
\* watermark. (It holds for every sequence of end times, hence for those
\* that do not decrease.)
C22_WatermarkMonotone == [][\A d \in Names : C22_Step(d)]_vars

\* The second of two runs with a later end time has raised a watermark.
C22_Witness ==
    /\ runs >= 2
    /\ \E d \in Names :
          /\ d \in DOMAIN file0
          /\ Loaded(file0, d) < end_time
          /\ outcome[d] = "ok"
          /\ Loaded(metafile, d) = end_time

\* A run that ended by itself, with no dataset in test and no recompute or
\* insert that failed.
C24_Case ==
    /\ runs >= 1
    /\ pc = "idle"
    /\ Ended
    /\ \A d \in Names : ~in_test[d] /\ outcome[d] \notin Failed

\* The watermark the run found for a dataset, or the default origin.
C24_Origin(d) == IF d \in DOMAIN file0 THEN trans_date(file0[d]) ELSE default_start_time

PANEL == "PANEL"
TIME_SERIES == "TIME_SERIES"

Days == 1..MaxDay
Symbols == 1..NSym
RowTags == {"u", "v"}

\* The value reindex puts in a column the table did not have.
NaN == <<"NaN", 0>>

\* The set S in ascending order (sorted(...)).
RECURSIVE SortedSeq(_)
SortedSeq(S) ==
    IF S = {} THEN << >>
    ELSE LET m == CHOOSE x \in S : \A y \in S : x <= y
         IN <<m>> \o SortedSeq(S \ {m})

\* The units init_from_pd builds: the index is sorted ascending (it may hold
\* a day twice), the values of a row are told apart by the row's tag and the
\* column.
SortedIndex(n) == {s \in [1..n -> Days] : \A i, j \in 1..n : i < j => s[i] <= s[j]}
ColumnOrders == Tuples(Symbols) \ {<< >>}

PanelUnit(cols, index, tags) ==
    [cat |-> PANEL, columns |-> cols,
     rows |-> [i \in 1..Len(index) |->
                  [t |-> index[i], v |-> [c \in Range(cols) |-> <<tags[i], c>>]]]]

SeriesUnit(index, tags) ==
    [cat |-> TIME_SERIES, columns |-> << >>,
     rows |-> [i \in 1..Len(index) |-> [t |-> index[i], v |-> <<tags[i], 0>>]]]

UnitsOfLen(n) ==
    {PanelUnit(cols, index, tags) :
        cols \in ColumnOrders, index \in SortedIndex(n), tags \in [1..n -> RowTags]}
    \cup {SeriesUnit(index, tags) : index \in SortedIndex(n), tags \in [1..n -> RowTags]}

Units == UNION {UnitsOfLen(n) : n \in 1..MaxLen}

\* lines 316-332: the properties of a unit
StartTime(u) == u.rows[1].t
EndTime(u) == u.rows[Len(u.rows)].t
data_category(u) == u.cat
symbol_index(u) == u.columns

drop_before_date_inclusive(u, date) ==
    IF date < StartTime(u) THEN u
    ELSE [u EXCEPT !.rows = SelectSeq(u.rows, LAMBDA r : r.t >= date)]

\* lines 217-229: drop the rows on or before date
drop_before_date(u, date) ==
    IF date < StartTime(u) THEN u
    ELSE [u EXCEPT !.rows = SelectSeq(u.rows, LAMBDA r : r.t > date)]

\* DataFrame.reindex(columns=cols) on one row
reindex(v, cols) == [c \in Range(cols) |-> IF c \in DOMAIN v THEN v[c] ELSE NaN]

rearrange_symbol_noop(u, symbol_order) == u

\* lines 231-246 (panel data; update calls it for panel data only)
rearrange_symbol(u, symbol_order) ==
    IF u.columns = symbol_order THEN u
    ELSE LET diff == SortedSeq(Range(u.columns) \ Range(symbol_order))
             new_order == symbol_order \o diff
         IN [u EXCEPT !.columns = new_order,
                      !.rows = [i \in 1..Len(u.rows) |->
                                   [t |-> u.rows[i].t, v |-> reindex(u.rows[i].v, new_order)]]]

has_duplicates_never(rows) == FALSE

\* line 272: data.index.has_duplicates
has_duplicates(rows) == \E i, j \in 1..Len(rows) : i < j /\ rows[i].t = rows[j].t

TimeOrderOk_partial(self, other) ==
    /\ StartTime(other) <= StartTime(self)
    /\ StartTime(self) <= EndTime(other)

\* line 263: other.start_time <= self.start_time <= other.end_time <= self.end_time
TimeOrderOk(self, other) ==
    /\ StartTime(other) <= StartTime(self)
    /\ StartTime(self) <= EndTime(other)
    /\ EndTime(other) <= EndTime(self)

\* lines 248-274: self.update(other); the result is self and other as the call
\* leaves them and how the call ended.
update(self, other) ==
    IF data_category(self) # data_category(other)
    THEN [self |-> self, other |-> other, signal |-> "ValueError"]
    ELSE IF ~TimeOrderOk(self, other)
    THEN [self |-> self, other |-> other, signal |-> "warning"]
    ELSE LET s1 == drop_before_date(self, EndTime(other))
             s2 == IF data_category(self) = PANEL
                   THEN rearrange_symbol(s1, symbol_index(other)) ELSE s1
             o2 == IF data_category(self) = PANEL
                   THEN rearrange_symbol(other, symbol_index(s2)) ELSE other
             data == o2.rows \o s2.rows
         IN IF has_duplicates(data)
            THEN [self |-> s2, other |-> o2, signal |-> "DuplicateIndex"]
            ELSE [self |-> [s2 EXCEPT !.rows = data], other |-> o2, signal |-> "ok"]

InitMerge ==
    /\ IdleUpdater
    /\ IdleShard /\ IdleCatalog /\ IdleFacade /\ IdlePeriod
    /\ self_data \in Units
    /\ other_data \in Units
    /\ self0 = self_data
    /\ other0 = other_data
    /\ signal = "none"
    /\ mpc = "ready"

Update ==
    /\ mpc = "ready"
    /\ LET r == update(self_data, other_data)
       IN /\ self_data' = r.self
          /\ other_data' = r.other
          /\ signal' = r.signal
    /\ mpc' = "done"
    /\ UNCHANGED <<self0, other0, notMerge>>

NextMerge == Update

SpecMerge == InitMerge /\ [][NextMerge]_vars

\* ------------------------------------------------------------------------
\* Properties of DataWrapper.update
\* ------------------------------------------------------------------------
StrictlyIncreasing(u) == \A i, j \in 1..Len(u.rows) : i < j => u.rows[i].t < u.rows[j].t

\* B.start <= A.start <= B.end <= A.end, for A.update(B)
MergePrecondition(a, b) ==
    /\ b.rows[1].t <= a.rows[1].t
    /\ a.rows[1].t <= b.rows[Len(b.rows)].t
    /\ b.rows[Len(b.rows)].t <= a.rows[Len(a.rows)].t

\* Row r is the row orig of unit u: the same time and, in every column u has,
\* the same value; a column u does not have holds the filler.
IsRowOf(r, orig, u) ==
    /\ r.t = orig.t
    /\ IF u.cat = PANEL
       THEN /\ Range(u.columns) \subseteq DOMAIN r.v
            /\ \A c \in DOMAIN r.v :
                  r.v[c] = (IF c \in Range(u.columns) THEN orig.v[c] ELSE NaN)
       ELSE r.v = orig.v

C9_Case ==
    /\ mpc = "done"
    /\ self0.cat = other0.cat
    /\ StrictlyIncreasing(self0)
    /\ StrictlyIncreasing(other0)
    /\ MergePrecondition(self0, other0)

\* C9: after A.update(B) on sorted, duplicate-free units of one category that
\* satisfy the time precondition, the merge succeeds, A's time index is
\* strictly increasing, every row of A up to B.end is a row of B (each row of
\* B is there, with B's values) and every later row is a row A had before.
C9_MergeInvariant ==
    C9_Case =>
        /\ signal = "ok"
        /\ StrictlyIncreasing(self_data)
        /\ \A i \in 1..Len(self_data.rows) :
              LET r == self_data.rows[i]
              IN IF r.t <= other0.rows[Len(other0.rows)].t
                 THEN /\ \E j \in 1..Len(other0.rows) : IsRowOf(r, other0.rows[j], other0)
                      /\ r \in Range(other_data.rows)
                 ELSE \E j \in 1..Len(self0.rows) : IsRowOf(r, self0.rows[j], self0)
        /\ \A j \in 1..Len(other0.rows) :
              \E i \in 1..Len(self_data.rows) : IsRowOf(self_data.rows[i], other0.rows[j], other0)

C9_Witness ==
    /\ C9_Case
    /\ signal = "ok"
    /\ self0.cat = PANEL
    /\ self0.columns # other0.columns
    /\ Len(self0.rows) = 2 /\ Len(other0.rows) = 2
    /\ self0.rows[1].t = other0.rows[2].t
    /\ Len(self_data.rows) = 3

\* C10 (as claimed): when the time precondition is violated the merge is
\* skipped, A is what it was and the call ends with a warning, no exception.
C10_Claim ==
    (mpc = "done" /\ ~MergePrecondition(self0, other0))
        => (self_data = self0 /\ signal = "warning")

\* C10 (amended): for two units of the same category, when the time
\* precondition is violated the merge is skipped, A (and B) is what it was
\* and the call ends with a warning, no exception.
C10_SkippedMerge ==
    (mpc = "done" /\ self0.cat = other0.cat /\ ~MergePrecondition(self0, other0))
        => (self_data = self0 /\ other_data = other0 /\ signal = "warning")

C10_Witness ==
    /\ mpc = "done"
    /\ self0.cat = other0.cat
    /\ other0.rows[1].t > self0.rows[1].t
    /\ signal = "warning"
    /\ self_data = self0

\* The concatenation update builds: other's rows, then self's rows later than
\* other.end.
C11_Concat ==
    other0.rows \o SelectSeq(self0.rows, LAMBDA r : r.t > other0.rows[Len(other0.rows)].t)

C11_Repeats(rows) == \E i, j \in 1..Len(rows) : i # j /\ rows[i].t = rows[j].t

C11_Merging ==
    /\ mpc = "done"
    /\ self0.cat = other0.cat
    /\ MergePrecondition(self0, other0)

\* C11: when the concatenation of other's rows and self's later rows holds a
\* time twice, update ends with the duplicate-index error and self does not
\* hold the concatenation; a merge that is stored holds every row of the
\* concatenation, none dropped, and no time twice.
C11_DuplicateIndexFails ==
    C11_Merging =>
        /\ C11_Repeats(C11_Concat) =>
              (signal = "DuplicateIndex" /\ Len(self_data.rows) < Len(C11_Concat))
        /\ signal = "ok" =>
              (/\ ~C11_Repeats(self_data.rows)
               /\ Len(self_data.rows) = Len(C11_Concat)
               /\ \A i \in 1..Len(self_data.rows) : self_data.rows[i].t = C11_Concat[i].t)

C11_Witness ==
    /\ C11_Merging
    /\ C11_Repeats(C11_Concat)
    /\ signal = "DuplicateIndex"
    /\ self0.rows[Len(self0.rows)].t > other0.rows[Len(other0.rows)].t

\* C23 (as claimed): A.update(B) leaves B as it was, whether the merge was
\* performed, skipped or failed.
C23_Claim == mpc = "done" => other_data = other0

\* The calls that come to rearrange_symbol: panel data of one category in the
\* required time order.
C23_Rearranged ==
    /\ mpc = "done"
    /\ other0.cat = PANEL
    /\ signal \in {"ok", "DuplicateIndex"}

\* C23 (amended): A.update(B) keeps B's category, times and row order and
\* the value of every row in every column B had. A call that is skipped or
\* refused for the category, and every call on time series, leaves B as it
\* was; a call on panel data that passes the time precondition, merged or
\* failed on a duplicate, leaves B with its own columns first and then the
\* columns only A had, in ascending order, filled with NaN.
C23_ArgumentFrame ==
    mpc = "done" =>
        /\ other_data.cat = other0.cat
        /\ Len(other_data.rows) = Len(other0.rows)
        /\ \A i \in 1..Len(other0.rows) :
              IsRowOf(other_data.rows[i], other0.rows[i], other0)
        /\ IF C23_Rearranged
           THEN /\ other_data.columns
                      = other0.columns \o SortedSeq(Range(self0.columns) \ Range(other0.columns))
                /\ \A i \in 1..Len(other_data.rows) :
                      DOMAIN other_data.rows[i].v = Range(other_data.columns)
           ELSE other_data = other0

C23_Witness ==
    /\ C23_Rearranged
    /\ signal = "ok"
    /\ other_data # other0
    /\ Len(other_data.columns) > Len(other0.columns)

\* ------------------------------------------------------------------------
\* date2filename, date2filenamelist (database/jsonEngine/dbcore.py)
\*
\* A date is <<year, month, day>>; a file name is the sequence of its
\* characters.
\* ------------------------------------------------------------------------
MaxYears == 2          \* the dates are in the years 2017 .. 2017 + MaxYears - 1

Years == 2017..(2017 + MaxYears - 1)
Dates == {<<y, m, d>> : y \in Years, m \in 1..12, d \in {1, 15}}
Frequencies == {"YEAR", "MONTH", "QUARTER"}

DateLE(a, b) ==
    \/ a[1] < b[1]
    \/ a[1] = b[1] /\ a[2] < b[2]
    \/ a[1] = b[1] /\ a[2] = b[2] /\ a[3] <= b[3]

DigitChars == <<"0", "1", "2", "3", "4", "5", "6", "7", "8", "9">>
isdigit(c) == c \in Range(DigitChars)
DigitVal(c) == CHOOSE n \in 0..9 : DigitChars[n + 1] = c

\* str(n)
RECURSIVE Str(_)
Str(n) == IF n < 10 THEN <<DigitChars[n + 1]>>
          ELSE Str(n \div 10) \o <<DigitChars[(n % 10) + 1]>>

\* int(s)
RECURSIVE ParseInt(_)
ParseInt(s) == IF s = << >> THEN 0
          ELSE ParseInt(SubSeq(s, 1, Len(s) - 1)) * 10 + DigitVal(s[Len(s)])

\* '%0{width}d' % n
RECURSIVE Pad(_, _)
Pad(s, width) == IF Len(s) >= width THEN s ELSE Pad(<<"0">> \o s, width)
Format(n, width) == Pad(Str(n), width)

\* Timestamp.quarter
quarter(date) == ((date[2] - 1) \div 3) + 1

\* lines 39-72
date2filename(date, freq) ==
    CASE freq = "YEAR" -> Format(date[1], 4)
      [] freq = "MONTH" -> Format(date[1], 4) \o Format(date[2], 2)
      [] freq = "QUARTER" -> Str(date[1]) \o <<"Q">> \o Str(quarter(date))

\* line 98
cycle_len_map == [f \in {"MONTH", "QUARTER"} |-> IF f = "MONTH" THEN 12 ELSE 4]

NextPeriod_late(year, minor, cycle_len) ==
    IF minor + 1 > cycle_len + 1 THEN <<year + 1, 1>> ELSE <<year, minor + 1>>

\* lines 118-121: the step of the cursor (year, minor)
NextPeriod(year, minor, cycle_len) ==
    IF minor + 1 > cycle_len THEN <<year + 1, 1>> ELSE <<year, minor + 1>>

\* range(a, b + 1) as a list of str(i)
RECURSIVE YearList(_, _)
YearList(a, b) == IF a > b THEN << >> ELSE <<Str(a)>> \o YearList(a + 1, b)

\* lines 115-121: the while loop
RECURSIVE PeriodLoop(_, _, _, _, _, _, _)
PeriodLoop(year, minor, end_year, minor_end, identifier, num_len, cycle_len) ==
    IF year < end_year \/ (year = end_year /\ minor <= minor_end)
    THEN LET tmp == Str(year) \o identifier \o Format(minor, num_len)
             nxt == NextPeriod(year, minor, cycle_len)
         IN <<tmp>> \o PeriodLoop(nxt[1], nxt[2], end_year, minor_end,
                                  identifier, num_len, cycle_len)
    ELSE << >>

\* lines 74-122
date2filenamelist(start, end, freq) ==
    LET start_file == date2filename(start, freq)
        end_file == date2filename(end, freq)
        start_year == ParseInt(SubSeq(start_file, 1, 4))
        end_year == ParseInt(SubSeq(end_file, 1, 4))
    IN IF freq = "YEAR" THEN YearList(start_year, end_year)
       ELSE LET identifier == SelectSeq(SubSeq(start_file, 5, Len(start_file)),
                                        LAMBDA c : ~isdigit(c))
                num_len == Len(start_file) - 4 - Len(identifier)
                minor_start == ParseInt(SubSeq(start_file, 5 + Len(identifier), Len(start_file)))
                minor_end == ParseInt(SubSeq(end_file, 5 + Len(identifier), Len(end_file)))
            IN PeriodLoop(start_year, minor_start, end_year, minor_end,
                          identifier, num_len, cycle_len_map[freq])

InitPeriod ==
    /\ IdleUpdater /\ IdleMerge /\ IdleShard /\ IdleCatalog /\ IdleFacade
    /\ p_freq \in Frequencies
    /\ p_start \in Dates
    /\ p_end \in Dates
    /\ p_out = << >>
    /\ ppc = "ready"

FileNameList ==
    /\ ppc = "ready"
    /\ p_out' = date2filenamelist(p_start, p_end, p_freq)
    /\ ppc' = "done"
    /\ UNCHANGED <<p_freq, p_start, p_end, notPeriod>>

NextPeriodSpec == FileNameList

SpecPeriod == InitPeriod /\ [][NextPeriodSpec]_vars

\* ------------------------------------------------------------------------
\* Properties of date2filenamelist
\* ------------------------------------------------------------------------
\* The number of the period a date falls in, counted in periods.
PeriodOf(date, freq) ==
    CASE freq = "YEAR" -> date[1]
      [] freq = "MONTH" -> date[1] * 12 + (date[2] - 1)
      [] freq = "QUARTER" -> date[1] * 4 + ((date[2] - 1) \div 3)

\* The key is 'YYYY', 'YYYYMM' with MM in 01..12, or 'YYYYQn' with n in 1..4.
KeyWellFormed(key, freq) ==
    CASE freq = "YEAR" -> Len(key) = 4 /\ \A i \in 1..4 : isdigit(key[i])
      [] freq = "MONTH" -> /\ Len(key) = 6
                           /\ \A i \in 1..6 : isdigit(key[i])
                           /\ ParseInt(SubSeq(key, 5, 6)) \in 1..12
      [] freq = "QUARTER" -> /\ Len(key) = 6
                             /\ \A i \in {1, 2, 3, 4, 6} : isdigit(key[i])
                             /\ key[5] = "Q"
                             /\ ParseInt(<<key[6]>>) \in 1..4

\* The number of the period a well-formed key names.
KeyIndex(key, freq) ==
    CASE freq = "YEAR" -> ParseInt(key)
      [] freq = "MONTH" -> ParseInt(SubSeq(key, 1, 4)) * 12 + ParseInt(SubSeq(key, 5, 6)) - 1
      [] freq = "QUARTER" -> ParseInt(SubSeq(key, 1, 4)) * 4 + ParseInt(<<key[6]>>) - 1

C20_Case == ppc = "done" /\ DateLE(p_start, p_end)
C20_Between == {d \in Dates : DateLE(p_start, d) /\ DateLE(d, p_end)}

\* C20: for start <= end and each granularity, date2filenamelist returns
\* well-formed keys in strictly ascending order without repetition, each the
\* period after the one before it; the first is the key of start, the last
\* the key of end, the key of every date in [start, end] is in the list and
\* every key of the list is the key of a date in [start, end].
C20_PeriodKeyRange ==
    C20_Case =>
        /\ Len(p_out) >= 1
        /\ \A i \in 1..Len(p_out) : KeyWellFormed(p_out[i], p_freq)
        /\ p_out[1] = date2filename(p_start, p_freq)
        /\ p_out[Len(p_out)] = date2filename(p_end, p_freq)
        /\ KeyIndex(p_out[1], p_freq) = PeriodOf(p_start, p_freq)
        /\ KeyIndex(p_out[Len(p_out)], p_freq) = PeriodOf(p_end, p_freq)
        /\ \A i \in 1..(Len(p_out) - 1) :
              KeyIndex(p_out[i + 1], p_freq) = KeyIndex(p_out[i], p_freq) + 1
        /\ \A d \in C20_Between :
              \E i \in 1..Len(p_out) : /\ p_out[i] = date2filename(d, p_freq)
                                       /\ KeyIndex(p_out[i], p_freq) = PeriodOf(d, p_freq)
        /\ \A i \in 1..Len(p_out) :
              \E d \in C20_Between : p_out[i] = date2filename(d, p_freq)

C20_Witness ==
    /\ C20_Case
    /\ p_freq = "QUARTER"
    /\ p_start = <<2017, 1, 1>>
    /\ p_end = <<2018, 1, 1>>
    /\ p_out = << <<"2","0","1","7","Q","1">>, <<"2","0","1","7","Q","2">>,
                  <<"2","0","1","7","Q","3">>, <<"2","0","1","7","Q","4">>,
                  <<"2","0","1","8","Q","1">> >>

\* ------------------------------------------------------------------------
\* split_data and init_from_files (database/jsonEngine/dbcore.py)
\*
\* The days 1, 2, 3, ... of a unit's index are the first days of consecutive
\* months, day 1 being 2017-11-01.
\* ------------------------------------------------------------------------
DateOf(n) == <<2017 + ((n + 9) \div 12), ((n + 9) % 12) + 1, 1>>

\* lines 161-169: a unit of the given rows; the rows of a group are in index
\* order already, which sort_index keeps.
init_from_pd(cat, columns, rows) == [cat |-> cat, columns |-> columns, rows |-> rows]

\* lines 285-291: group the rows by the file name of their time; the groups
\* come by ascending file name.
RECURSIVE GroupRows(_, _, _, _)
GroupRows(cat, columns, rows, freq) ==
    IF rows = << >> THEN << >>
    ELSE LET fn == date2filename(DateOf(rows[1].t), freq)
             g_data == SelectSeq(rows, LAMBDA r : date2filename(DateOf(r.t), freq) = fn)
             rest == SelectSeq(rows, LAMBDA r : date2filename(DateOf(r.t), freq) # fn)
         IN <<[fn |-> fn, unit |-> init_from_pd(cat, columns, g_data)]>>
            \o GroupRows(cat, columns, rest, freq)

split_data(u, freq) == GroupRows(u.cat, u.columns, u.rows, freq)

\* line 205: sorted(data, key=start_time, reverse=True), a stable sort
RECURSIVE InsertDesc(_, _)
InsertDesc(sorted, x) ==
    IF sorted = << >> THEN <<x>>
    ELSE IF StartTime(Head(sorted)) >= StartTime(x)
         THEN <<Head(sorted)>> \o InsertDesc(Tail(sorted), x)
         ELSE <<x>> \o sorted

RECURSIVE SortDesc(_)
SortDesc(data) ==
    IF data = << >> THEN << >>
    ELSE InsertDesc(SortDesc(SubSeq(data, 1, Len(data) - 1)), data[Len(data)])

\* lines 207-212: reduce(reduce_op, data), x.update(y) for each further y; an
\* error raised by update leaves the reduce.
RECURSIVE Reduce(_, _, _)
Reduce(x, ys, skipped) ==
    IF ys = << >> THEN [unit |-> x, signal |-> IF skipped THEN "warning" ELSE "ok"]
    ELSE LET r == update(x, Head(ys))
         IN IF r.signal \in {"ValueError", "DuplicateIndex"}
            THEN [unit |-> r.self, signal |-> r.signal]
            ELSE Reduce(r.self, Tail(ys), skipped \/ r.signal = "warning")

\* lines 203-215, on the units decoded from the data files
init_from_files(units) ==
    LET data == SortDesc(units)
    IN IF Len(data) > 1 THEN Reduce(data[1], Tail(data), FALSE)
       ELSE [unit |-> data[1], signal |-> "ok"]

\* Merging units back in ascending time order with update: each later unit
\* takes the merge so far with later.update(merged), or the merge so far
\* takes the later unit with merged.update(later).
RECURSIVE MergeAscending(_, _, _, _)
MergeAscending(acc, rest, dir, skipped) ==
    IF rest = << >> THEN [unit |-> acc, signal |-> IF skipped THEN "warning" ELSE "ok"]
    ELSE LET r == IF dir = "later.update(merged)" THEN update(Head(rest), acc)
                  ELSE update(acc, Head(rest))
         IN IF r.signal \in {"ValueError", "DuplicateIndex"}
            THEN [unit |-> r.self, signal |-> r.signal]
            ELSE MergeAscending(r.self, Tail(rest), dir, skipped \/ r.signal = "warning")

ShardUnits(sh) == [i \in 1..Len(sh) |-> sh[i].unit]

InitShard ==
    /\ IdleUpdater /\ IdleMerge /\ IdleCatalog /\ IdleFacade /\ IdlePeriod
    /\ sfreq \in Frequencies
    /\ su \in Units
    /\ shards = << >>
    /\ loaded = << >>
    /\ rejoined = << >>
    /\ spc = "ready"

Split ==
    /\ spc = "ready"
    /\ shards' = split_data(su, sfreq)
    /\ spc' = "split"
    /\ UNCHANGED <<sfreq, su, loaded, rejoined, notShard>>

Load ==
    /\ spc = "split"
    /\ loaded' = init_from_files(ShardUnits(shards))
    /\ spc' = "loaded"
    /\ UNCHANGED <<sfreq, su, shards, rejoined, notShard>>

Rejoin ==
    /\ spc = "split"
    /\ \E dir \in {"later.update(merged)", "merged.update(later)"} :
          rejoined' = MergeAscending(shards[1].unit, Tail(ShardUnits(shards)), dir, FALSE)
    /\ spc' = "rejoined"
    /\ UNCHANGED <<sfreq, su, shards, loaded, notShard>>

NextShard == Split \/ Load \/ Rejoin

SpecShard == InitShard /\ [][NextShard]_vars

\* ------------------------------------------------------------------------
\* Properties of split_data and init_from_files
\* ------------------------------------------------------------------------
RowTimes(u) == {u.rows[i].t : i \in 1..Len(u.rows)}

\* The unit that was split is sorted and duplicate-free and spans two or more
\* periods.
ShardCase == StrictlyIncreasing(su) /\ Len(shards) >= 2

\* C12 (as claimed): loading two or more period shards of one dataset gives
\* one unit with every row of every shard, from the earliest shard's start to
\* the latest shard's end.
C12_Claim ==
    (spc = "loaded" /\ ShardCase) =>
        /\ loaded.signal \in {"ok", "warning"}
        /\ \A k \in 1..Len(shards) :
              \A i \in 1..Len(shards[k].unit.rows) :
                  shards[k].unit.rows[i] \in Range(loaded.unit.rows)
        /\ loaded.unit.rows[1].t = shards[1].unit.rows[1].t
        /\ loaded.unit.rows[Len(loaded.unit.rows)].t
              = shards[Len(shards)].unit.rows[Len(shards[Len(shards)].unit.rows)].t

\* C13 (as claimed): the sub-units of split_data, merged back in ascending
\* time order with update, are the original unit.
C13_Claim ==
    (spc = "rejoined" /\ ShardCase) =>
        /\ rejoined.signal \in {"ok", "warning"}
        /\ rejoined.unit = su

\* ------------------------------------------------------------------------
\* The classification taxonomy and StoreFormat (database/db.py)
\* ------------------------------------------------------------------------
STRUCTURED == "STRUCTURED"
UNSTRUCTURED == "UNSTRUCTURED"
CHAR == "CHAR"
NUMERIC == "NUMERIC"

\* The three enumerations of database.const, by member name
DataClassification == {STRUCTURED, UNSTRUCTURED}
DataValueCategory == {CHAR, NUMERIC}
DataFormatCategory == {PANEL, TIME_SERIES}

\* A node without a classification
None == <<"None">>

\* lines 26-47: the string tuple t as a StoreFormat. max_length is the larger
\* of len(formater) = 3 and len(t), so t[idx] is read for idx = 0, 1, 2.
formater == <<DataClassification, DataValueCategory, DataFormatCategory>>

RECURSIVE strs2StoreFormatLoop(_, _, _)
strs2StoreFormatLoop(t, k, max_length) ==
    IF k > max_length THEN [err |-> "none", fmt |-> t]
    ELSE IF k > Len(t) THEN [err |-> "IndexError", fmt |-> None]
    ELSE IF t[k] \notin formater[k] THEN [err |-> "KeyError", fmt |-> None]
    ELSE strs2StoreFormatLoop(t, k + 1, max_length)

strs2StoreFormat(t) ==
    IF Len(t) > 3 THEN [err |-> "NotImplementedError", fmt |-> None]
    ELSE LET max_length == IF Len(formater) > Len(t) THEN Len(formater) ELSE Len(t)
         IN strs2StoreFormatLoop(t, 1, max_length)

\* lines 116-127: the names of the classification's members
to_strtuple(fmt) == fmt

\* ------------------------------------------------------------------------
\* The catalog tree of DataNode (database/db.py)
\*
\* nodes holds every DataNode object made so far; a node is named by its
\* position in nodes, and 0 names no node.  children is the node's dict of
\* children in insertion order.
\* ------------------------------------------------------------------------
MaxOps == 2

\* lines 474-478
DataNode(node_name, store_fmt) ==
    [node_name |-> node_name, store_fmt |-> store_fmt, children |-> << >>, parent |-> 0]

\* lines 608-610
is_leaf(arena, id) == Len(arena[id].children) = 0

\* lines 546-559
has_child(arena, id, name) ==
    \E i \in 1..Len(arena[id].children) : arena[arena[id].children[i]].node_name = name

\* lines 517-526: child._parent = self; self._children[child.node_name] = child
\* (an existing key keeps its place in the dict)
add_child(arena, id, child) ==
    LET ch == arena[id].children
        name == arena[child].node_name
        newch == IF has_child(arena, id, name)
                 THEN [i \in 1..Len(ch) |-> IF arena[ch[i]].node_name = name THEN child ELSE ch[i]]
                 ELSE Append(ch, child)
    IN [n \in 1..Len(arena) |->
           IF n = id THEN [arena[n] EXCEPT !.children = newch,
                                           !.parent = IF n = child THEN id ELSE @]
           ELSE IF n = child THEN [arena[n] EXCEPT !.parent = id]
           ELSE arena[n]]

\* lines 528-544: del self._children[child]; the parent of the removed node
\* is left as it is.
delete_child(arena, id, name) ==
    [arena EXCEPT ![id].children =
        SelectSeq(@, LAMBDA c : arena[c].node_name # name)]

\* lines 480-514: the tree of meta_data, built depth first; an error of
\* strs2StoreFormat leaves init_from_meta.
RECURSIVE init_from_meta(_, _)
RECURSIVE init_children(_, _, _, _)
init_from_meta(arena, meta_data) ==
    IF "children" \in DOMAIN meta_data
    THEN LET arena1 == Append(arena, DataNode(meta_data.node_name, None))
         IN init_children(arena1, Len(arena1), meta_data.children, 1)
    ELSE LET f == strs2StoreFormat(meta_data.store_fmt)
         IN IF f.err # "none" THEN [nodes |-> arena, id |-> 0, err |-> f.err]
            ELSE [nodes |-> Append(arena, DataNode(meta_data.node_name, f.fmt)),
                  id |-> Len(arena) + 1, err |-> "none"]

init_children(arena, id, metas, k) ==
    IF k > Len(metas) THEN [nodes |-> arena, id |-> id, err |-> "none"]
    ELSE LET r == init_from_meta(arena, metas[k])
         IN IF r.err # "none" THEN [nodes |-> r.nodes, id |-> 0, err |-> r.err]
            ELSE init_children(add_child(r.nodes, id, r.id), id, metas, k + 1)

\* lines 584-586: to_dict reads the classification of a node without
\* children; a node without a classification has none to read.
RECURSIVE to_dict_raises(_, _)
to_dict_raises(arena, id) ==
    IF is_leaf(arena, id) THEN arena[id].store_fmt = None
    ELSE \E i \in 1..Len(arena[id].children) : to_dict_raises(arena, arena[id].children[i])

\* lines 561-590
RECURSIVE to_dict(_, _)
to_dict(arena, id) ==
    IF is_leaf(arena, id)
    THEN [node_name |-> arena[id].node_name, store_fmt |-> to_strtuple(arena[id].store_fmt)]
    ELSE [node_name |-> arena[id].node_name,
          children |-> [i \in 1..Len(arena[id].children) |-> to_dict(arena, arena[id].children[i])]]

\* The nodes of the tree under a node, the node included
RECURSIVE Subtree(_, _)
Subtree(arena, id) ==
    {id} \cup UNION {Subtree(arena, arena[id].children[i]) : i \in 1..Len(arena[id].children)}

\* The well-formed classifications of one to three names
ValidFormats ==
    {<<STRUCTURED>>, <<UNSTRUCTURED>>}
    \cup {<<STRUCTURED, v>> : v \in DataValueCategory}
    \cup {<<STRUCTURED, v, f>> : v \in DataValueCategory, f \in DataFormatCategory}

\* The well-formed catalog trees of depth two or less: a leaf has a valid
\* classification, a namespace has a list of children of distinct names.
LeafMeta(n) == {[node_name |-> n, store_fmt |-> f] : f \in ValidFormats}
FolderMeta(n) ==
    {[node_name |-> n, children |-> << >>]}
    \cup {[node_name |-> n, children |-> <<c>>] : c \in LeafMeta("x")}
ChildMeta(n) == LeafMeta(n) \cup FolderMeta(n)
Trees ==
    LeafMeta("db")
    \cup {[node_name |-> "db", children |-> << >>]}
    \cup {[node_name |-> "db", children |-> <<c>>] : c \in ChildMeta("a") \cup ChildMeta("b")}
    \cup {[node_name |-> "db", children |-> <<c, d>>] : c \in ChildMeta("a"), d \in ChildMeta("b")}

NewNodeNames == {"a", "c"}
NewNodeFormats == {None, <<STRUCTURED, NUMERIC, PANEL>>}

Built == cresult \notin {"none", "new", "IndexError", "KeyError", "NotImplementedError"}

InitCatalog ==
    /\ IdleUpdater /\ IdleMerge /\ IdleShard /\ IdleFacade /\ IdlePeriod
    /\ tree0 \in Trees
    /\ nodes = << >>
    /\ root = 0
    /\ cresult = "new"
    /\ csteps = 0

\* root = DataNode.init_from_meta(tree0)
InitFromMeta ==
    /\ cresult = "new"
    /\ LET r == init_from_meta(<< >>, tree0)
       IN /\ nodes' = r.nodes
          /\ root' = r.id
          /\ cresult' = IF r.err = "none" THEN "built" ELSE r.err
    /\ UNCHANGED <<tree0, csteps, notCatalog>>

\* node.add_child(DataNode(name, fmt)) on a node of the tree
AddChild ==
    /\ Built
    /\ csteps < MaxOps
    /\ \E id \in Subtree(nodes, root), name \in NewNodeNames, fmt \in NewNodeFormats :
          LET arena1 == Append(nodes, DataNode(name, fmt))
          IN nodes' = add_child(arena1, id, Len(arena1))
    /\ cresult' = "added"
    /\ csteps' = csteps + 1
    /\ UNCHANGED <<root, tree0, notCatalog>>

\* node.delete_child(name) of a child the node has
DeleteChild ==
    /\ Built
    /\ csteps < MaxOps
    /\ \E id \in Subtree(nodes, root) :
          \E i \in 1..Len(nodes[id].children) :
              nodes' = delete_child(nodes, id, nodes[nodes[id].children[i]].node_name)
    /\ cresult' = "deleted"
    /\ csteps' = csteps + 1
    /\ UNCHANGED <<root, tree0, notCatalog>>

\* node.delete_child(name) of a name the node has no child of: a warning and
\* False
DeleteAbsent ==
    /\ Built
    /\ csteps < MaxOps
    /\ \E id \in Subtree(nodes, root), name \in NewNodeNames :
          ~has_child(nodes, id, name)
    /\ cresult' = "False"
    /\ csteps' = csteps + 1
    /\ UNCHANGED <<nodes, root, tree0, notCatalog>>

NextCatalog == InitFromMeta \/ AddChild \/ DeleteChild \/ DeleteAbsent

SpecCatalog == InitCatalog /\ [][NextCatalog]_vars

\* ------------------------------------------------------------------------
\* Properties of the catalog tree
\* ------------------------------------------------------------------------

\* C14 (as claimed): in every catalog built by init_from_meta and changed by
\* add_child and delete_child, a node of the tree has a classification if
\* and only if it has no children, and to_dict gives a dictionary.
C14_Claim ==
    Built =>
        /\ \A id \in Subtree(nodes, root) :
              (nodes[id].store_fmt # None) <=> is_leaf(nodes, id)
        /\ ~to_dict_raises(nodes, root)

\* C15 (as claimed): for every well-formed tree, init_from_meta gives a
\* catalog and its to_dict is the tree.
C15_Claim ==
    (cresult # "new" /\ csteps = 0) =>
        /\ cresult = "built"
        /\ ~to_dict_raises(nodes, root)
        /\ to_dict(nodes, root) = tree0

\* C21 (as claimed): in every catalog changed by add_child and delete_child,
\* the parent of a node is p exactly when the children of p hold that node
\* under its name; a node removed by delete_child or replaced by add_child
\* has no parent.
C21_Claim ==
    Built =>
        \A n \in 1..Len(nodes) :
            /\ \A q \in 1..Len(nodes) :
                  (nodes[n].parent = q) <=> (n \in Range(nodes[q].children))
            /\ (nodes[n].parent = 0) <=>
                  ~(\E q \in 1..Len(nodes) : n \in Range(nodes[q].children))

\* ------------------------------------------------------------------------
\* StoreFormat.validate, ParamsParser and the Database facade (database/db.py)
\*
\* A classification is the tuple of its members' names.  f_start and f_end
\* say whether the caller gave a start and an end time.  What an engine does
\* with a request is outside this model: a call that reaches an engine
\* records the engine and "ok".  The facade keeps nothing between calls, so
\* a behaviour is one call.
\* ------------------------------------------------------------------------
Taxonomy == DataClassification \cup DataValueCategory \cup DataFormatCategory

\* The classification tuples of one to three members
Formats ==
    {<<a>> : a \in Taxonomy}
    \cup {<<a, b>> : a \in Taxonomy, b \in Taxonomy}
    \cup {<<a, b, c>> : a \in Taxonomy, b \in Taxonomy, c \in Taxonomy}

\* lines 67-71: the members allowed after a member. The list [None] of
\* UNSTRUCTURED holds no member of an enumeration, and the key None is never
\* looked up, the first member taking the place of None.
rule ==
    [last_cate \in {STRUCTURED, UNSTRUCTURED, CHAR, NUMERIC} |->
        IF last_cate = STRUCTURED THEN {CHAR, NUMERIC}
        ELSE IF last_cate = UNSTRUCTURED THEN {}
        ELSE {PANEL, TIME_SERIES}]

\* lines 105-114: rule[last_cate] of a member that is no key raises KeyError
RECURSIVE validateLoop(_, _, _)
validateLoop(data, k, last_cate) ==
    IF k > Len(data) THEN "True"
    ELSE IF last_cate \notin DOMAIN rule THEN "KeyError"
    ELSE IF data[k] \notin rule[last_cate] THEN "False"
    ELSE validateLoop(data, k + 1, data[k])

validate(data) == validateLoop(data, 2, data[1])

\* lines 176-179
HDF5Engine == "HDF5Engine"
JSONEngine == "JSONEngine"
engine_map_rule ==
    [t \in {<<STRUCTURED, v, f>> : v \in DataValueCategory, f \in DataFormatCategory} |->
        IF t[2] = NUMERIC THEN HDF5Engine ELSE JSONEngine]

\* lines 190-224: the times are converted and kept, the classification alone
\* is checked.
from_dict(store_fmt, start_given, end_given) ==
    LET validated == validate(store_fmt)
    IN IF validated = "KeyError" THEN "KeyError"
       ELSE IF validated = "False" THEN "ValueError"
       ELSE "ok"

\* lines 226-230: a dict lookup, with the dict's default for a missing key
get_engine_default(store_fmt) ==
    IF store_fmt \in DOMAIN engine_map_rule
    THEN [err |-> "none", engine |-> engine_map_rule[store_fmt]]
    ELSE [err |-> "none", engine |-> JSONEngine]

\* lines 226-230: a dict lookup, KeyError for a missing key
get_engine(store_fmt) ==
    IF store_fmt \in DOMAIN engine_map_rule
    THEN [err |-> "none", engine |-> engine_map_rule[store_fmt]]
    ELSE [err |-> "KeyError", engine |-> "none"]

\* The validation rule with an end time alone taken as a structured request
validation_rule_end_only ==
    [time_flag \in BOOLEAN \X BOOLEAN |->
        IF time_flag = <<TRUE, TRUE>> THEN UNSTRUCTURED ELSE STRUCTURED]

\* lines 317-320: keyed by (start_time is None, end_time is None)
validation_rule ==
    [time_flag \in BOOLEAN \X BOOLEAN |->
        IF time_flag = <<TRUE, TRUE>> THEN UNSTRUCTURED
        ELSE IF time_flag = <<TRUE, FALSE>> THEN "None"
        ELSE STRUCTURED]

\* The descriptor is built, then the engine is looked up and called
Dispatch(params, store_fmt) ==
    IF params # "ok" THEN [result |-> params, engine |-> "none"]
    ELSE LET engine == get_engine(store_fmt)
         IN IF engine.err # "none" THEN [result |-> engine.err, engine |-> "none"]
            ELSE [result |-> "ok", engine |-> engine.engine]

\* lines 312-327
query(store_fmt, start_given, end_given) ==
    LET params == from_dict(store_fmt, start_given, end_given)
        time_flag == <<~start_given, ~end_given>>
        vclassification == validation_rule[time_flag]
    IN IF params # "ok" THEN [result |-> params, engine |-> "none"]
       ELSE IF vclassification = "None" \/ vclassification # store_fmt[1]
            THEN [result |-> "ValueError", engine |-> "none"]
            ELSE Dispatch(params, store_fmt)

\* lines 348-353
insert(store_fmt) == Dispatch(from_dict(store_fmt, FALSE, FALSE), store_fmt)

\* lines 370-374
remove_data(store_fmt) == Dispatch(from_dict(store_fmt, FALSE, FALSE), store_fmt)

\* lines 392-398: the source and the destination descriptor, the engine of
\* the source
move_to(store_fmt) ==
    LET src_params == from_dict(store_fmt, FALSE, FALSE)
        dest_params == from_dict(store_fmt, FALSE, FALSE)
    IN IF src_params # "ok" THEN [result |-> src_params, engine |-> "none"]
       ELSE Dispatch(dest_params, store_fmt)

InitFacade ==
    /\ IdleUpdater /\ IdleMerge /\ IdleShard /\ IdleCatalog /\ IdlePeriod
    /\ f_op = "idle"
    /\ f_fmt = << >>
    /\ f_start = FALSE
    /\ f_end = FALSE
    /\ f_result = "none"
    /\ f_engine = "none"

\* StoreFormat.from_iterable(fmt).validate()
Validate ==
    /\ f_op = "idle"
    /\ \E fmt \in Formats :
          /\ f_fmt' = fmt
          /\ f_result' = validate(fmt)
    /\ f_op' = "validate"
    /\ f_start' = FALSE
    /\ f_end' = FALSE
    /\ f_engine' = "none"
    /\ UNCHANGED notFacade

Query ==
    /\ f_op = "idle"
    /\ \E fmt \in Formats, start_given \in BOOLEAN, end_given \in BOOLEAN :
          LET r == query(fmt, start_given, end_given)
          IN /\ f_fmt' = fmt
             /\ f_start' = start_given
             /\ f_end' = end_given
             /\ f_result' = r.result
             /\ f_engine' = r.engine
    /\ f_op' = "query"
    /\ UNCHANGED notFacade

Insert ==
    /\ f_op = "idle"
    /\ \E fmt \in Formats :
          LET r == insert(fmt)
          IN /\ f_fmt' = fmt
             /\ f_result' = r.result
             /\ f_engine' = r.engine
    /\ f_op' = "insert"
    /\ f_start' = FALSE
    /\ f_end' = FALSE
    /\ UNCHANGED notFacade

RemoveData ==
    /\ f_op = "idle"
    /\ \E fmt \in Formats :
          LET r == remove_data(fmt)
          IN /\ f_fmt' = fmt
             /\ f_result' = r.result
             /\ f_engine' = r.engine
    /\ f_op' = "remove_data"
    /\ f_start' = FALSE
    /\ f_end' = FALSE
    /\ UNCHANGED notFacade

MoveTo ==
    /\ f_op = "idle"
    /\ \E fmt \in Formats :
          LET r == move_to(fmt)
          IN /\ f_fmt' = fmt
             /\ f_result' = r.result
             /\ f_engine' = r.engine
    /\ f_op' = "move_to"
    /\ f_start' = FALSE
    /\ f_end' = FALSE
    /\ UNCHANGED notFacade

NextFacade == Validate \/ Query \/ Insert \/ RemoveData \/ MoveTo

SpecFacade == InitFacade /\ [][NextFacade]_vars

\* ------------------------------------------------------------------------
\* Properties of the classification and the facade
\* ------------------------------------------------------------------------
FacadeOps == {"query", "insert", "remove_data", "move_to"}

\* The transition table: STRUCTURED is followed by CHAR or NUMERIC, CHAR or
\* NUMERIC by PANEL or TIME_SERIES, UNSTRUCTURED by nothing.
TransitionOk(a, b) ==
    \/ a = STRUCTURED /\ b \in {CHAR, NUMERIC}
    \/ a \in {CHAR, NUMERIC} /\ b \in {PANEL, TIME_SERIES}

AdjacentOk(t) == \A i \in 1..(Len(t) - 1) : TransitionOk(t[i], t[i + 1])

\* The presence of start and end disagrees with the top-level value
Inconsistent(t, start_given, end_given) ==
    \/ t[1] = STRUCTURED /\ ~start_given
    \/ t[1] = UNSTRUCTURED /\ (start_given \/ end_given)
    \/ end_given /\ ~start_given

\* C16 (as claimed): validate returns true for a tuple whose adjacent pairs
\* all obey the transition table and returns false, without raising, for
\* every other tuple.
C16_Claim ==
    f_op = "validate" => f_result = (IF AdjacentOk(f_fmt) THEN "True" ELSE "False")

\* C17 (as claimed): a facade operation given an invalid classification
\* fails with the invalid-parameter error (ValueError) and invokes no engine.
C17_Claim ==
    (f_op \in FacadeOps /\ ~AdjacentOk(f_fmt)) =>
        (f_result = "ValueError" /\ f_engine = "none")

\* C18 (as claimed): every construction of a descriptor whose start/end
\* presence disagrees with the top-level classification fails with the
\* invalid-parameter error, whichever operation builds it.
C18_Claim ==
    (f_op \in FacadeOps /\ Inconsistent(f_fmt, f_start, f_end)) => f_result = "ValueError"

\* C18 (amended): the cross-check is Database.query's. A query whose
\* start/end presence disagrees with the top-level classification reaches no
\* engine and fails with ValueError, or with the KeyError of validate when a
\* member before the last is PANEL or TIME_SERIES. from_dict checks the
\* classification alone: insert, remove_data and move_to, which give no
\* times, are not refused for a valid classification.
C18_QueryCrossCheck ==
    /\ (f_op = "query" /\ Inconsistent(f_fmt, f_start, f_end)) =>
          /\ f_engine = "none"
          /\ f_result \in {"ValueError", "KeyError"}
          /\ f_result = "KeyError" =>
                \E i \in 1..(Len(f_fmt) - 1) : f_fmt[i] \in DataFormatCategory
    /\ (f_op \in FacadeOps \ {"query"} /\ AdjacentOk(f_fmt)) => f_result # "ValueError"

C18_Witness ==
    /\ f_op = "query"
    /\ f_fmt = <<STRUCTURED, NUMERIC, PANEL>>
    /\ ~f_start /\ f_end
    /\ f_result = "ValueError"
    /\ f_engine = "none"

\* The calls that come to get_engine: the classification validated and, in
\* query, the times agree with it.
C19_Routed ==
    /\ f_op \in FacadeOps
    /\ AdjacentOk(f_fmt)
    /\ f_op = "query" => (~Inconsistent(f_fmt, f_start, f_end) /\ f_fmt[1] \in DataClassification)

\* C19: get_engine gives the numeric backend for (STRUCTURED, NUMERIC, PANEL
\* or TIME_SERIES) and the chunked engine for (STRUCTURED, CHAR, PANEL or
\* TIME_SERIES); for every other validated descriptor the lookup fails with
\* KeyError, which the facade passes to the caller, and no engine is invoked.
C19_EngineRouting ==
    C19_Routed =>
        IF Len(f_fmt) = 3 /\ f_fmt[1] = STRUCTURED /\ f_fmt[2] = NUMERIC
        THEN f_engine = "HDF5Engine" /\ f_result = "ok"
        ELSE IF Len(f_fmt) = 3 /\ f_fmt[1] = STRUCTURED /\ f_fmt[2] = CHAR
        THEN f_engine = "JSONEngine" /\ f_result = "ok"
        ELSE f_engine = "none" /\ f_result = "KeyError"

C19_Witness ==
    /\ C19_Routed
    /\ f_op = "insert"
    /\ f_fmt = <<UNSTRUCTURED>>
    /\ f_result = "KeyError"
    /\ f_engine = "none"

====
